---------------------------- MODULE Spec2Model ----------------------------
(***************************************************************************)
(* Model of the yield dashboard (src/yield_analysis_app.py and             *)
(* src/modules/data_loader.py): the cached CSV loader load_data, the       *)
(* cohort normalisation calculate_yield_percentage, and the render pass of *)
(* main() that calls them.                                                 *)
(*                                                                         *)
(* Numbers.  A numeric cell is a record [k, num, den]: k = "num" is the    *)
(* rational num/den in lowest terms (den > 0), k = "nan" is the missing    *)
(* value NaN, k = "inf" is a signed infinity.  The float64 arithmetic of   *)
(* pandas is modelled by exact rational arithmetic: rounding is not        *)
(* modelled.                                                               *)
(*                                                                         *)
(* Tables.  A DataFrame is a sequence of rows; a row is a record whose     *)
(* fields are the columns plus "index", the pandas index label of the row. *)
(* A boolean-mask selection t[mask] is SelectSeq(t, Test).                 *)
(***************************************************************************)
EXTENDS Integers, Sequences, FiniteSets, TLC

(***************************************************************************)
(* Bounds of the model                                                     *)
(***************************************************************************)
MaxRows == 3
MaxYear == 2
MaxYield == 3

(***************************************************************************)
(* Numbers                                                                 *)
(***************************************************************************)
RECURSIVE GCD(_, _)
GCD(a, b) == IF b = 0 THEN a ELSE GCD(b, a % b)

Abs(n) == IF n < 0 THEN -n ELSE n

NaN == [k |-> "nan", num |-> 0, den |-> 1]

Inf(sign) == [k |-> "inf", num |-> sign, den |-> 1]

Frac(n, d) ==
    LET s == IF d < 0 THEN -1 ELSE 1
        g == GCD(Abs(n), Abs(d))
    IN  [k |-> "num", num |-> (s * n) \div g, den |-> (s * d) \div g]

Num(n) == Frac(n, 1)

isna(x) == x.k = "nan"

Sign(n) == IF n < 0 THEN -1 ELSE IF n > 0 THEN 1 ELSE 0

\* float addition: NaN propagates, inf + (-inf) = NaN
Add(x, y) ==
    IF isna(x) \/ isna(y) THEN NaN
    ELSE IF x.k = "inf" /\ y.k = "inf"
         THEN (IF x.num = y.num THEN x ELSE NaN)
    ELSE IF x.k = "inf" THEN x
    ELSE IF y.k = "inf" THEN y
    ELSE Frac(x.num * y.den + y.num * x.den, x.den * y.den)

\* float multiplication: NaN propagates, 0 * inf = NaN
Mul(x, y) ==
    IF isna(x) \/ isna(y) THEN NaN
    ELSE IF x.k = "inf" \/ y.k = "inf"
         THEN (IF x.num = 0 \/ y.num = 0 THEN NaN
               ELSE Inf(Sign(x.num) * Sign(y.num)))
    ELSE Frac(x.num * y.num, x.den * y.den)

\* float division: NaN propagates, x/0 = +-inf, 0/0 = NaN, inf/inf = NaN
Div(x, y) ==
    IF isna(x) \/ isna(y) THEN NaN
    ELSE IF y.k = "inf"
         THEN (IF x.k = "inf" THEN NaN ELSE Num(0))
    ELSE IF x.k = "inf"
         THEN Inf(x.num * (IF y.num < 0 THEN -1 ELSE 1))
    ELSE IF y.num = 0
         THEN (IF x.num = 0 THEN NaN ELSE Inf(Sign(x.num)))
    ELSE Frac(x.num * y.den, x.den * y.num)

\* x > y on floats: False whenever an operand is NaN
Gt(x, y) ==
    IF isna(x) \/ isna(y) THEN FALSE
    ELSE IF x.k = "inf" THEN x.num > 0 /\ ~(y.k = "inf" /\ y.num > 0)
    ELSE IF y.k = "inf" THEN y.num < 0
    ELSE x.num * y.den > y.num * x.den

(***************************************************************************)
(* The source file yield_data.csv                                          *)
(*                                                                         *)
(* A raw cell is [kind, val]: kind = "num" is a cell whose text is the     *)
(* numeral of val, kind = "text" a cell with non-numeric text ("abc").      *)
(***************************************************************************)
NumCell(n) == [kind |-> "num", val |-> n]
TextCell == [kind |-> "text", val |-> 0]

Crops == {"WHEAT", "CORN"}
\* the crop of a row whose crop cell is empty (read_csv yields NaN)
NoCrop == "<NaN>"
Wkt == "POLYGON"
\* the geometry of a row whose geometry cell is empty
NoGeometry == "<NaN>"

\* a WKT string that wkt.loads rejects
BadWkt == "POLYGON(("

\* a parcel name cell: a string (t = "str"), a number (t = "num", s the text
\* str() gives for it) or a missing value (t = "nan")
StrName(x) == [t |-> "str", s |-> x]
NumName(x) == [t |-> "num", s |-> x]
NoName == [t |-> "nan", s |-> "nan"]

\* a full source row
FullRow(n, id, y, c, yh, a, g) ==
    [name |-> n, agev_parcel_id |-> id, year |-> y, crop |-> c,
     yield_ha |-> yh, area |-> a, geometry |-> g]

\* a source row of parcel "P1"
RawRow(y, c, yh, a, g) == FullRow(StrName("P1"), Num(1), y, c, yh, a, g)

\* rows with every field well-formed
RegularRows ==
    { RawRow(NumCell(y), c, NumCell(v), NumCell(10), Wkt) :
        y \in 1..MaxYear, c \in Crops, v \in 1..MaxYield }

\* rows with one malformed, missing or non-positive field
IrregularRows ==
    { RawRow(NumCell(1), "WHEAT", NumCell(0), NumCell(10), Wkt),
      RawRow(NumCell(1), "WHEAT", NumCell(-1), NumCell(10), Wkt),
      RawRow(NumCell(1), "WHEAT", TextCell, NumCell(10), Wkt),
      RawRow(TextCell, "WHEAT", NumCell(2), NumCell(10), Wkt),
      RawRow(NumCell(1), NoCrop, NumCell(2), NumCell(10), Wkt),
      RawRow(NumCell(1), "WHEAT", NumCell(2), TextCell, Wkt),
      RawRow(NumCell(1), "WHEAT", NumCell(2), NumCell(10), NoGeometry) }

RawRows == RegularRows \cup IrregularRows

RawTables == UNION { [1..n -> RawRows] : n \in 0..MaxRows }

\* the file system: yield_data.csv is unreadable, or holds a table
Files ==
    { [readable |-> FALSE, rows |-> <<>>] } \cup
    { [readable |-> TRUE, rows |-> t] : t \in RawTables }

(***************************************************************************)
(* pandas helpers                                                          *)
(***************************************************************************)
\* pd.to_numeric(errors='coerce') on one cell
to_numeric(cell) == IF cell.kind = "num" THEN Num(cell.val) ELSE NaN

RECURSIVE SumSeq(_)
SumSeq(s) == IF s = <<>> THEN Num(0) ELSE Add(Head(s), SumSeq(Tail(s)))

RECURSIVE Flatten(_)
Flatten(ss) == IF ss = <<>> THEN <<>> ELSE Head(ss) \o Flatten(Tail(ss))

RECURSIVE SetToSeq(_)
SetToSeq(S) ==
    IF S = {} THEN <<>>
    ELSE LET x == CHOOSE x \in S : TRUE IN <<x>> \o SetToSeq(S \ {x})

\* Series.mean(): NaN values are skipped, the mean of no value is NaN
Mean(s) ==
    LET vals == SelectSeq(s, LAMBDA x : ~isna(x))
    IN  IF vals = <<>> THEN NaN ELSE Div(SumSeq(vals), Num(Len(vals)))

Column(t, col) == [i \in 1..Len(t) |-> t[i][col]]


(***************************************************************************)
(* load_data                                                               *)
(***************************************************************************)
\* the value None returned by load_data when it catches an exception
None == [ok |-> FALSE, rows |-> <<>>]

DataFrame(t) == [ok |-> TRUE, rows |-> t]

\* pd.read_csv: the rows of the file under the default RangeIndex 0..n-1
\* (called on a readable file only; an unreadable file raises)
read_csv(f) ==
    [i \in 1..Len(f.rows) |-> [index |-> i - 1] @@ f.rows[i]]

\* the three pd.to_numeric(..., errors='coerce') assignments
Coerce(t) ==
    [i \in 1..Len(t) |->
        [t[i] EXCEPT !.year = to_numeric(@),
                     !.yield_ha = to_numeric(@),
                     !.area = to_numeric(@)]]

\* df[df['yield_ha'] > 0]
KeepValidMutant(t) ==
    SelectSeq(t, LAMBDA r : Gt(r.yield_ha, Num(0)) \/ r.yield_ha = Num(0))
KeepValidDropYear(t) ==
    SelectSeq(t, LAMBDA r : Gt(r.yield_ha, Num(0)) /\ ~isna(r.year))
KeepValid(t) == SelectSeq(t, LAMBDA r : Gt(r.yield_ha, Num(0)))

\* the body of load_data: every exception ends in st.error and None
load_data(f) ==
    IF ~f.readable THEN None
    ELSE DataFrame(KeepValid(Coerce(read_csv(f))))

(***************************************************************************)
(* calculate_yield_percentage                                              *)
(***************************************************************************)
\* the keys of df.groupby(['year', 'crop']): groupby drops the rows whose
\* key has a missing component (dropna=True)
GroupKeys(t) ==
    { <<t[i].year, t[i].crop>> :
        i \in { j \in 1..Len(t) : ~isna(t[j].year) /\ t[j].crop # NoCrop } }

GroupMeanMutant(t, key) ==
    Mean(Column(SelectSeq(t, LAMBDA r : r.crop = key[2]), "yield_ha"))
GroupMeanByYear(t, key) ==
    Mean(Column(SelectSeq(t, LAMBDA r : r.year = key[1]), "yield_ha"))
GroupMeanFirst(t, key) ==
    Head(Column(SelectSeq(t, LAMBDA r : r.year = key[1] /\ r.crop = key[2]),
                "yield_ha"))
\* ['yield_ha'].mean() of the group of one key
GroupMean(t, key) ==
    Mean(Column(SelectSeq(t, LAMBDA r : r.year = key[1] /\ r.crop = key[2]),
                "yield_ha"))

\* yearly_crop_avg: one row per group, the mean renamed avg_yield_crop_year
\* (a set of rows: the row order of the right side of a left merge does not
\* affect its result)
GroupByMean(t) ==
    { [year |-> key[1], crop |-> key[2],
       avg_yield_crop_year |-> GroupMean(t, key)] : key \in GroupKeys(t) }

MatchesMutant(r, right) == { a \in right : a.crop = r.crop }
\* the rows of the right table that join a left row on ['year', 'crop']
\* (merge matches a missing key with a missing key)
Matches(r, right) == { a \in right : a.year = r.year /\ a.crop = r.crop }

\* the rows a left row contributes to df.merge(right, how='left')
Joined(r, right) ==
    IF Matches(r, right) = {}
    THEN << r @@ [avg_yield_crop_year |-> NaN] >>
    ELSE [k \in 1..Len(SetToSeq(Matches(r, right))) |->
            r @@ [avg_yield_crop_year |->
                    SetToSeq(Matches(r, right))[k].avg_yield_crop_year]]

\* df.merge(yearly_crop_avg, on=['year', 'crop'], how='left'): left order
\* kept, a fresh RangeIndex
Merge(t, right) ==
    LET rows == Flatten([i \in 1..Len(t) |-> Joined(t[i], right)])
    IN  [i \in 1..Len(rows) |-> [rows[i] EXCEPT !.index = i - 1]]

PercentageMutant(r) == Div(r.yield_ha, r.avg_yield_crop_year)
\* (yield_ha / avg_yield_crop_year) * 100
Percentage(r) == Mul(Div(r.yield_ha, r.avg_yield_crop_year), Num(100))

\* the call calculate_yield_percentage(df): "input" is the argument table
\* as the call leaves it, "out" the returned df_with_avg
calculate_yield_percentageMutant(t) ==
    LET merged == Merge(t, GroupByMean(t))
        result == [i \in 1..Len(merged) |->
                     merged[i] @@ [yield_percentage |-> Percentage(merged[i])]]
    IN  [input |-> result, out |-> result]
calculate_yield_percentage(t) ==
    LET merged == Merge(t, GroupByMean(t))
    IN  [input |-> t,
         out |-> [i \in 1..Len(merged) |->
                    merged[i] @@ [yield_percentage |-> Percentage(merged[i])]]]

(***************************************************************************)
(* Chart and map builders of the main page                                 *)
(***************************************************************************)
MinCropRecords == 5

\* df[df['crop'] == crop_name]: a missing crop equals nothing, itself
\* included
CropData(t, crop) == SelectSeq(t, LAMBDA r : crop # NoCrop /\ r.crop = crop)

\* create_yield_boxplot and create_yield_trend: None on an empty subset
CropChart(t, crop) == IF CropData(t, crop) = <<>> THEN "None" ELSE "figure"

\* the groups of df.groupby(['name', 'agev_parcel_id', 'area', 'geometry']):
\* groupby drops the rows with a missing value in a key
ParcelGroups(t) ==
    { <<t[i].name, t[i].agev_parcel_id, t[i].area, t[i].geometry>> :
        i \in { j \in 1..Len(t) :
                  /\ t[j].name.t # "nan"
                  /\ ~isna(t[j].agev_parcel_id)
                  /\ ~isna(t[j].area)
                  /\ t[j].geometry # NoGeometry } }

\* the string parcel names of the tables handed to the map builders, in
\* sorted order
NameOrder == <<"1", "A", "B", "P1">>

\* the colour the loop of create_parcel_performance_map computes for an
\* average yield_percentage (a comparison with NaN is False)
Colour(avg) ==
    IF Gt(Num(80), avg) THEN "red"
    ELSE IF Gt(Num(100), avg) THEN "orange"
    ELSE "green"

\* the GeoJson layers of create_parcel_performance_map, one per group in the
\* sorted order of reset_index (the tables have one group per name), as
\* they are styled when the map is rendered: every style_function is a
\* lambda that reads the variable color of the enclosing call, which holds
\* the colour of the last group once the loop has ended
PerformanceLayers(t) ==
    LET groups == ParcelGroups(t)
        order == SelectSeq(NameOrder, LAMBDA n : \E g \in groups : g[1].s = n)
        avg(n) ==
            Mean(Column(
                SelectSeq(t, LAMBDA r :
                    /\ r.name.s = n
                    /\ <<r.name, r.agev_parcel_id, r.area, r.geometry>>
                          \in groups),
                "yield_percentage"))
        color == Colour(avg(order[Len(order)]))
    IN  [i \in 1..Len(order) |->
            [name |-> order[i],
             avg_yield_percentage |-> avg(order[i]),
             fillColor |-> color]]

\* create_parcel_performance_map: None when no group is left, st.error and
\* None when wkt.loads raises, else a map of the groups' parcels
PerformanceMap(t) ==
    IF ParcelGroups(t) = {}
    THEN [fig |-> "None", error |-> FALSE, parcels |-> {}, layers |-> <<>>]
    ELSE IF \E g \in ParcelGroups(t) : g[4] = BadWkt
    THEN [fig |-> "None", error |-> TRUE, parcels |-> {}, layers |-> <<>>]
    ELSE [fig |-> "figure", error |-> FALSE,
          parcels |-> { g[1] : g \in ParcelGroups(t) },
          layers |-> PerformanceLayers(t)]

\* crop_counts[crop_counts >= 5].index (value_counts drops missing crops)
ValidCrops(t) ==
    { c \in { t[i].crop : i \in 1..Len(t) } \ {NoCrop} :
        Len(SelectSeq(t, LAMBDA r : r.crop = c)) >= MinCropRecords }

(***************************************************************************)
(* main(): one render pass per user interaction                            *)
(***************************************************************************)
VARIABLES
    file,       \* yield_data.csv
    cache,      \* the st.cache_data entry of load_data
    pc,         \* position of main() in the current render pass
    loaded,     \* df as bound by df = load_data()
    df,         \* df as rebound by df = calculate_yield_percentage(df)
    messages,   \* the st.error messages shown in this pass
    outcome,    \* how the pass has ended, "none" while it runs
    prev,       \* the normalized table of the previous pass
    passes,     \* render passes started in this session
    bodyRuns,   \* executions of the body of load_data
    normRuns,   \* executions of calculate_yield_percentage
    clears,     \* invalidations of the cache
    page,       \* what the pass has put on the page after the selector
    vdf,        \* the normalized table handed to a view
    view        \* what the last view call did

mainVars == <<file, cache, pc, loaded, df, messages, outcome, prev, passes,
              bodyRuns, normRuns, clears, page>>
viewVars == <<vdf, view>>
vars == <<file, cache, pc, loaded, df, messages, outcome, prev, passes,
          bodyRuns, normRuns, clears, page, vdf, view>>

MaxPasses == 2
MaxClears == 1

NoEntry == [present |-> FALSE, value |-> None]

\* nothing rendered yet
NoPage == [charts |-> {}, skipped |-> {}, warnings |-> {},
           tests |-> "off", export |-> FALSE]

\* no view called yet
NoView == [name |-> "none", raised |-> FALSE, returned |-> FALSE,
           charts |-> {}, skipped |-> {}, warnings |-> {}, errors |-> {},
           selected |-> "", records |-> <<>>, ranking |-> <<>>,
           categories |-> <<>>, mapped |-> {}, map_type |-> "",
           geometries |-> {}, layers |-> <<>>, colours |-> <<>>,
           timeline |-> <<>>, radar |-> <<>>]

InitMain ==
    /\ cache = NoEntry
    /\ pc = "idle"
    /\ loaded = None
    /\ df = None
    /\ messages = {}
    /\ outcome = "none"
    /\ prev = None
    /\ passes = 0
    /\ bodyRuns = 0
    /\ normRuns = 0
    /\ clears = 0
    /\ page = NoPage

Init ==
    /\ file \in Files
    /\ InitMain
    /\ vdf = <<>>
    /\ view = NoView

\* a user interaction (or the first request) starts a render pass
Rerun ==
    /\ pc \in {"idle", "done"}
    /\ passes < MaxPasses
    /\ passes' = passes + 1
    /\ pc' = "load"
    /\ loaded' = None
    /\ df' = None
    /\ messages' = {}
    /\ outcome' = "none"
    /\ page' = NoPage
    /\ prev' = IF pc = "done" /\ df.ok THEN df ELSE prev
    /\ UNCHANGED <<file, cache, bodyRuns, normRuns, clears, vdf, view>>

\* @st.cache_data: the call is served from the cache when an entry exists
CacheHitMutant(c) == FALSE
CacheHit(c) == c.present

\* df = load_data() under @st.cache_data: the body runs on a miss and its
\* return value is stored; a hit returns the stored value and replays the
\* st.error the body showed
LoadData ==
    /\ pc = "load"
    /\ LET value == IF CacheHit(cache) THEN cache.value ELSE load_data(file)
       IN  /\ loaded' = value
           /\ cache' = [present |-> TRUE, value |-> value]
           /\ messages' = IF value.ok THEN messages
                          ELSE messages \cup {"load_data"}
    /\ bodyRuns' = IF CacheHit(cache) THEN bodyRuns ELSE bodyRuns + 1
    /\ pc' = "check"
    /\ UNCHANGED <<file, df, outcome, prev, passes, normRuns, clears, page,
                   vdf, view>>

\* where main() goes after "if df is None:"
AfterCheckMutant(d) == "normalize"
AfterCheck(d) == IF ~d.ok THEN "done" ELSE "normalize"

\* if df is None: st.error(...); return
CheckLoaded ==
    /\ pc = "check"
    /\ pc' = AfterCheck(loaded)
    /\ messages' = IF ~loaded.ok THEN messages \cup {"main"} ELSE messages
    /\ outcome' = IF pc' = "done" THEN "returned" ELSE outcome
    /\ UNCHANGED <<file, cache, loaded, df, prev, passes, bodyRuns, normRuns,
                   clears, page, vdf, view>>

\* df = calculate_yield_percentage(df)
Normalize ==
    /\ pc = "normalize"
    /\ LET r == calculate_yield_percentage(loaded.rows)
       IN  /\ loaded' = [loaded EXCEPT !.rows = r.input]
           /\ df' = DataFrame(r.out)
    /\ normRuns' = normRuns + 1
    /\ pc' = "render"
    /\ UNCHANGED <<file, cache, messages, outcome, prev, passes, bodyRuns,
                   clears, page, vdf, view>>

\* sorted(df['crop'].unique()) and the default crop of the selector:
\* sorted raises TypeError on a mix of str and NaN, available_crops[0]
\* raises IndexError on an empty list
SelectorRaises(t) ==
    LET crops == { t[i].crop : i \in 1..Len(t) }
    IN  \/ crops = {}
        \/ NoCrop \in crops /\ crops # {NoCrop}

\* the crops the selector offers; on an empty table nothing is selected,
\* the pass has raised before
AvailableCrops(t) ==
    IF t = <<>> THEN {NoCrop} ELSE { t[i].crop : i \in 1..Len(t) }

\* the page below the selector for the selected crop, the state of the
\* "Zobrazit mapu" button and of the statistical tests checkbox: a chart
\* whose builder returns None is not plotted; only the map has a warning;
\* the tests run when at least two crops have enough records and are
\* passed over without a message otherwise
MainPage(t, selected, mapButton, testsBox) ==
    LET built == [c \in {"boxplot", "trend"} |-> CropChart(t, selected)]
        map == PerformanceMap(t)
    IN  [charts |-> { c \in {"boxplot", "trend"} : built[c] = "figure" }
                    \cup {"top", "worst"}
                    \cup (IF mapButton /\ map.fig = "figure"
                          THEN {"map"} ELSE {}),
         skipped |-> { c \in {"boxplot", "trend"} : built[c] = "None" }
                     \cup (IF mapButton /\ map.fig = "None"
                           THEN {"map"} ELSE {}),
         warnings |-> IF mapButton /\ map.fig = "None" THEN {"map"} ELSE {},
         tests |-> IF ~testsBox THEN "off"
                   ELSE IF Cardinality(ValidCrops(t)) >= 2 THEN "performed"
                   ELSE "silent",
         export |-> TRUE]

\* the rest of main(): crop selector, metrics, charts, map, tests, export
Render ==
    /\ pc = "render"
    /\ \E mapButton \in BOOLEAN, testsBox \in BOOLEAN :
       \E selected \in AvailableCrops(df.rows) :
          IF SelectorRaises(df.rows)
          THEN /\ outcome' = "raised"
               /\ page' = page
          ELSE /\ outcome' = "rendered"
               /\ page' = MainPage(df.rows, selected, mapButton, testsBox)
    /\ pc' = "done"
    /\ UNCHANGED <<file, cache, loaded, df, messages, prev, passes, bodyRuns,
                   normRuns, clears, vdf, view>>

\* the cache of load_data is invalidated between two passes ("Clear cache",
\* st.cache_data.clear())
ClearCache ==
    /\ pc \in {"idle", "done"}
    /\ cache.present
    /\ clears < MaxClears
    /\ clears' = clears + 1
    /\ cache' = NoEntry
    /\ UNCHANGED <<file, pc, loaded, df, messages, outcome, prev, passes,
                   bodyRuns, normRuns, page, vdf, view>>

Next ==
    \/ Rerun
    \/ LoadData
    \/ CheckLoaded
    \/ Normalize
    \/ Render

Spec == Init /\ [][Next]_vars

\* sessions in which the cache may be invalidated, on the files of at most
\* one row
InitSession ==
    /\ file \in { f \in Files : Len(f.rows) <= 1 }
    /\ InitMain
    /\ vdf = <<>>
    /\ view = NoView

NextSession ==
    \/ Rerun
    \/ LoadData
    \/ CheckLoaded
    \/ Normalize
    \/ Render
    \/ ClearCache

SpecSession == InitSession /\ [][NextSession]_vars


(***************************************************************************)
(* The normalized tables handed to the views                               *)
(***************************************************************************)
MaxViewRows == 3
MaxParcels == 6
MaxCrops == 4
\* Series.std() is computed to 1/SqrtScale, rounded down
SqrtScale == 10

\* the parcel names of the view tables: two strings and a number whose
\* str() is one of them
ParcelNames == {StrName("P1"), StrName("1"), NumName("1")}

\* the source rows of the view tables: two yields per parcel name, and one
\* row per irregularity (geometry missing or malformed, area missing, name
\* missing, other crop and year, crop missing, year missing)
ViewRawRows ==
    { FullRow(n, Num(1), NumCell(1), "WHEAT", NumCell(y), NumCell(10), Wkt) :
        n \in ParcelNames, y \in {1, 3} }
    \cup { FullRow(StrName("P1"), Num(1), NumCell(1), "WHEAT", NumCell(2),
                   NumCell(10), g) : g \in {NoGeometry, BadWkt} }
    \cup { FullRow(StrName("1"), Num(1), NumCell(1), "WHEAT", NumCell(2),
                   TextCell, Wkt),
           FullRow(NoName, Num(1), NumCell(1), "WHEAT", NumCell(2),
                   NumCell(10), Wkt),
           FullRow(StrName("P1"), Num(1), NumCell(2), "CORN", NumCell(2),
                   NumCell(10), Wkt),
           FullRow(StrName("P1"), Num(1), NumCell(1), NoCrop, NumCell(2),
                   NumCell(10), Wkt),
           FullRow(StrName("P1"), Num(1), TextCell, "WHEAT", NumCell(2),
                   NumCell(10), Wkt) }

\* the table main() would hand to a view for the file with the rows t
NormalizedTable(t) ==
    calculate_yield_percentage(
        load_data([readable |-> TRUE, rows |-> t]).rows).out

ViewTables ==
    { NormalizedTable(t) :
        t \in UNION { [1..n -> ViewRawRows] : n \in 0..MaxViewRows } }

\* n parcels named 1..n with one record each, of yields 1..n, all in one
\* cohort, or all but the last one, whose year does not parse
CategoryTables ==
    { NormalizedTable(
          [i \in 1..n |->
              FullRow(NumName(ToString(i)), Num(i),
                      IF noYear /\ i = n THEN TextCell ELSE NumCell(1),
                      "WHEAT", NumCell(i), NumCell(10), Wkt)]) :
        n \in 0..MaxParcels, noYear \in BOOLEAN }

\* the i-th further crop
CropName(i) == "K" \o ToString(i)

\* parcel P1 with three records, of the years 1 to 3, for each of k crops,
\* and two records of WHEAT
TimelineTables ==
    { NormalizedTable(
          [i \in 1..(3 * k + 2) |->
              IF i <= 3 * k
              THEN FullRow(StrName("P1"), Num(1), NumCell(((i - 1) % 3) + 1),
                           CropName(((i - 1) \div 3) + 1),
                           NumCell(((i - 1) % 3) + 1), NumCell(10), Wkt)
              ELSE FullRow(StrName("P1"), Num(1), NumCell(i - 3 * k),
                           "WHEAT", NumCell(2), NumCell(10), Wkt)]) :
        k \in 0..MaxCrops }

(***************************************************************************)
(* modules/enterprise_stats.py                                             *)
(***************************************************************************)
TopCount == 10

Min(a, b) == IF a < b THEN a ELSE b

\* the keys of df.groupby('name'): missing names are dropped, the other
\* names are grouped by their raw value
GroupNames(t) == { t[i].name : i \in 1..Len(t) } \ {NoName}

\* df[df['name'] == parcel_name] for a group key
EnterpriseLookup(t, parcel_name) ==
    SelectSeq(t, LAMBDA r : r.name = parcel_name)

\* df.groupby('name')['yield_percentage'].mean() at one key
ParcelMean(t, parcel_name) ==
    Mean(Column(SelectSeq(t, LAMBDA r : r.name = parcel_name),
                "yield_percentage"))

\* .sort_values(ascending=False): the orders of the group keys by falling
\* mean, missing means last; the order of equal means is the sort
\* algorithm's
SortedParcels(t) ==
    LET S == GroupNames(t)
        n == Cardinality(S)
    IN  { o \in [1..n -> S] :
            /\ \A i, j \in 1..n : o[i] = o[j] => i = j
            /\ \A i, j \in 1..n :
                  i < j =>
                     /\ ~(isna(ParcelMean(t, o[i]))
                            /\ ~isna(ParcelMean(t, o[j])))
                     /\ ~Gt(ParcelMean(t, o[j]), ParcelMean(t, o[i])) }

\* the five categories cut from the ranking: int(total * 0.2) parcels for
\* each of A to D by head and iloc, the remaining ones for E by tail
CategoryCount(total) == total \div 5

Categories(order) ==
    LET total == Len(order)
        c == CategoryCount(total)
    IN  << SubSeq(order, 1, c),
           SubSeq(order, c + 1, 2 * c),
           SubSeq(order, 2 * c + 1, 3 * c),
           SubSeq(order, 3 * c + 1, 4 * c),
           SubSeq(order, total - (total - 4 * c) + 1, total) >>

\* the place of a name in the sorted group keys: numbers before strings,
\* numbers by value, strings in lexicographic order
NameRank(n) ==
    IF n.t = "num"
    THEN CHOOSE i \in 1..MaxParcels : ToString(i) = n.s
    ELSE MaxParcels + (CHOOSE i \in 1..Len(NameOrder) : NameOrder[i] = n.s)

RECURSIVE SortNames(_)
SortNames(S) ==
    IF S = {} THEN <<>>
    ELSE LET first == CHOOSE x \in S :
                         \A y \in S : NameRank(x) <= NameRank(y)
         IN  <<first>> \o SortNames(S \ {first})

\* Series.min() and Series.max(): NaN values are skipped, NaN without values
SeriesMin(s) ==
    LET vals == { s[i] : i \in { j \in 1..Len(s) : ~isna(s[j]) } }
    IN  IF vals = {} THEN NaN
        ELSE CHOOSE x \in vals : \A y \in vals : ~Gt(x, y)
SeriesMax(s) ==
    LET vals == { s[i] : i \in { j \in 1..Len(s) : ~isna(s[j]) } }
    IN  IF vals = {} THEN NaN
        ELSE CHOOSE x \in vals : \A y \in vals : ~Gt(y, x)

\* int() of a float
Trunc(x) ==
    IF x.num >= 0 THEN x.num \div x.den ELSE -((-x.num) \div x.den)

RGB(r, g, b) == [ok |-> TRUE, r |-> r, g |-> g, b |-> b]

\* int() of NaN raises ValueError
ValueError == [ok |-> FALSE, r |-> 0, g |-> 0, b |-> 0]

\* 100 + 80 * (normalized * 3) and the like, truncated by int()
Channel(base, slope, normalized, from) ==
    LET x == Add(Num(base),
                 Mul(Num(slope),
                     Mul(Add(normalized, Mul(Num(-1), from)), Num(3))))
    IN  Trunc(x)

\* the colour scale of get_color at a normalized value: three segments
\* with int() channels; a NaN fails both comparisons and int(NaN) raises
ColourScale(normalized) ==
    IF isna(normalized) THEN ValueError
    ELSE IF ~Gt(normalized, Frac(33, 100))
    THEN RGB(220,
             Channel(100, 80, normalized, Num(0)),
             Channel(50, 100, normalized, Num(0)))
    ELSE IF ~Gt(normalized, Frac(66, 100))
    THEN RGB(Channel(220, -50, normalized, Frac(33, 100)),
             Channel(180, 75, normalized, Frac(33, 100)),
             Channel(150, -100, normalized, Frac(33, 100)))
    ELSE RGB(Channel(170, -120, normalized, Frac(66, 100)),
             Channel(255, -50, normalized, Frac(66, 100)),
             Channel(50, 100, normalized, Frac(66, 100)))

\* get_color of the enterprise map: grey for a missing average, else the
\* average normalized to the range of the averages on the map and mapped to
\* the colour scale; with max_yield = min_yield the normalized value is
\* 0/0 = NaN
get_color(yield_percentage, min_yield, max_yield) ==
    IF isna(yield_percentage) THEN RGB(128, 128, 128)
    ELSE ColourScale(Div(Add(yield_percentage, Mul(Num(-1), min_yield)),
                         Add(max_yield, Mul(Num(-1), min_yield))))

\* the parcels of the enterprise map in the sorted order of the groups (the
\* tables have one group per name), each with its average and the result of
\* get_color for it
MapColours(t) ==
    LET groups == ParcelGroups(t)
        order == SortNames({ g[1] : g \in groups })
        avg(n) ==
            Mean(Column(
                SelectSeq(t, LAMBDA r :
                    /\ r.name = n
                    /\ <<r.name, r.agev_parcel_id, r.area, r.geometry>>
                          \in groups),
                "yield_percentage"))
        avgs == [i \in 1..Len(order) |-> avg(order[i])]
    IN  [i \in 1..Len(order) |->
            [name |-> order[i],
             avg_yield_percentage |-> avgs[i],
             colour |-> get_color(avgs[i], SeriesMin(avgs),
                                  SeriesMax(avgs))]]

\* the map built from the groups and their colours: None when no group is
\* left; the body is inside try/except, so a failure of wkt.loads, or of
\* the style function that folium.GeoJson tries on the first feature, is
\* an st.error and None; a style function that fails on a later feature
\* fails when the map is rendered
PerformanceFigure(groups, colours) ==
    IF groups = {}
    THEN [fig |-> "None", error |-> FALSE, parcels |-> {},
          colours |-> <<>>, renders |-> FALSE]
    ELSE IF \E g \in groups : g[4] = BadWkt
    THEN [fig |-> "None", error |-> TRUE, parcels |-> {},
          colours |-> <<>>, renders |-> FALSE]
    ELSE IF ~colours[1].colour.ok
    THEN [fig |-> "None", error |-> TRUE, parcels |-> {},
          colours |-> colours, renders |-> FALSE]
    ELSE [fig |-> "figure", error |-> FALSE,
          parcels |-> { g[1] : g \in groups },
          colours |-> colours,
          renders |-> \A i \in 1..Len(colours) : colours[i].colour.ok]

\* create_parcel_performance_map of the enterprise view
create_parcel_performance_map(t) ==
    PerformanceFigure(ParcelGroups(t), MapColours(t))

\* the enterprise view around its map: the two ranking charts with the
\* records looked up for each parcel, the categories, the summary table
\* whose percentages divide by the number of parcels, the map and its
\* rendering by map_fig._repr_html_()
EnterprisePage(t, order, map) ==
    LET top == SubSeq(order, 1, Min(TopCount, Len(order)))
        ranking == [i \in 1..Len(top) |->
                       [name |-> top[i],
                        mean |-> ParcelMean(t, top[i]),
                        records |-> Column(EnterpriseLookup(t, top[i]),
                                           "index")]]
        started == [NoView EXCEPT !.name = "enterprise",
                                  !.charts = {"top", "worst"},
                                  !.ranking = ranking]
    IN  IF Len(order) = 0
        THEN [input |-> t, view |-> [started EXCEPT !.raised = TRUE]]
        ELSE IF map.fig = "figure" /\ ~map.renders
        THEN [input |-> t,
              view |-> [started EXCEPT
                          !.raised = TRUE,
                          !.categories = Categories(order),
                          !.charts = @ \cup {"categories"},
                          !.colours = map.colours]]
        ELSE [input |-> t,
              view |->
                [started EXCEPT
                   !.returned = TRUE,
                   !.colours = map.colours,
                   !.categories = Categories(order),
                   !.charts = @ \cup {"categories"} \cup
                              (IF map.fig = "figure" THEN {"map"} ELSE {}),
                   !.skipped = IF map.fig = "None" THEN {"map"} ELSE {},
                   !.warnings = IF map.fig = "None" THEN {"map"} ELSE {},
                   !.errors = IF map.error THEN {"map"} ELSE {},
                   !.mapped = map.parcels]]

\* show_enterprise_statistics for one order of the ranking
show_enterprise_statistics(t, order) ==
    EnterprisePage(t, order, create_parcel_performance_map(t))

(***************************************************************************)
(* modules/crop_stats.py                                                   *)
(***************************************************************************)
CropCharts == {"boxplot", "trend", "distribution", "percentiles"}

\* the crops a caller may pass: a crop, a missing crop, the empty string
CropSelections == Crops \cup {NoCrop, ""}

\* create_yield_boxplot, create_yield_trend, create_yield_distribution and
\* create_yield_percentiles: None on an empty subset
create_crop_chart(t, crop_name) ==
    IF CropData(t, crop_name) = <<>> THEN "None" ELSE "figure"

\* show_crop_statistics: nothing below the header for a falsy selection;
\* else the metrics, the four charts, each with a warning when its builder
\* returns None, and the yearly table
show_crop_statistics(t, selected_crop) ==
    LET skipped == { c \in CropCharts :
                       create_crop_chart(t, selected_crop) = "None" }
        started == [NoView EXCEPT !.name = "crop",
                                  !.selected = selected_crop,
                                  !.returned = TRUE]
    IN  IF selected_crop = ""
        THEN [input |-> t, view |-> started]
        ELSE [input |-> t,
              view |-> [started EXCEPT
                          !.records = Column(CropData(t, selected_crop),
                                             "index"),
                          !.charts = (CropCharts \ skipped) \cup {"yearly"},
                          !.skipped = skipped,
                          !.warnings = skipped]]

(***************************************************************************)
(* modules/parcel_stats.py                                                 *)
(***************************************************************************)
MinTimelineRecords == 2

MapTypes == {"enhanced", "basic"}

\* df['name'].astype(str) on one cell, str(parcel) on one name
astype_str(n) == n.s

\* df[df['name'].astype(str) == parcel_name]
ParcelData(t, parcel_name) ==
    SelectSeq(t, LAMBDA r : astype_str(r.name) = parcel_name)

\* sorted([str(parcel) for parcel in df['name'].unique()
\*         if pd.notna(parcel)]), as a set
AvailableParcels(t) ==
    { astype_str(t[i].name) : i \in { j \in 1..Len(t) : t[j].name # NoName } }

\* create_parcel_crop_comparison and create_parcel_performance_radar
create_parcel_chart(t, parcel_name) ==
    IF ParcelData(t, parcel_name) = <<>> THEN "None" ELSE "figure"

Sub(x, y) == Add(x, Mul(Num(-1), y))

\* the square root of a non-negative number, exact for the squares of
\* multiples of 1/SqrtScale
Sqrt(x) ==
    IF x.k # "num" THEN x
    ELSE LET n == x.num * x.den * SqrtScale * SqrtScale
         IN  Frac(CHOOSE r \in 0..n : r * r <= n /\ n < (r + 1) * (r + 1),
                  x.den * SqrtScale)

\* Series.std(): the sample standard deviation (ddof=1) of the values that
\* are not NaN, NaN for fewer than two values
Std(s) ==
    LET vals == SelectSeq(s, LAMBDA x : ~isna(x))
        mean == Mean(vals)
        squares == [i \in 1..Len(vals) |->
                       Mul(Sub(vals[i], mean), Sub(vals[i], mean))]
    IN  IF Len(vals) < 2 THEN NaN
        ELSE Sqrt(Div(SumSeq(squares), Num(Len(vals) - 1)))

\* the numbers of S in ascending order
RECURSIVE SortNums(_)
SortNums(S) ==
    IF S = {} THEN <<>>
    ELSE LET m == CHOOSE x \in S : \A y \in S : ~Gt(x, y)
         IN  <<m>> \o SortNums(S \ {m})

\* groupby('year')['yield_ha'].mean().pct_change().mean() * 100: the rows of
\* a missing year are in no group, the first change is NaN
Trend(parcel_data) ==
    LET years == SortNums({ parcel_data[i].year : i \in 1..Len(parcel_data) }
                              \ {NaN})
        yearly(y) == Mean(Column(SelectSeq(parcel_data,
                                           LAMBDA r : r.year = y), "yield_ha"))
        pct_change == [i \in 1..Len(years) |->
                          IF i = 1 THEN NaN
                          ELSE Sub(Div(yearly(years[i]), yearly(years[i - 1])),
                                   Num(1))]
    IN  Mul(Mean(pct_change), Num(100))

\* Python's max(a, b) and min(a, b): b replaces a only when it compares
\* greater (less), which a NaN never does
PyMax(a, b) == IF Gt(b, a) THEN b ELSE a
PyMin(a, b) == IF Gt(a, b) THEN b ELSE a

normalizedMutant(value, max_value) ==
    PyMax(Num(0), Mul(Div(value, Num(max_value)), Num(100)))

\* normalized = min(100, max(0, (value / max_values[metric]) * 100))
normalized(value, max_value) ==
    PyMin(Num(100), PyMax(Num(0), Mul(Div(value, Num(max_value)), Num(100))))

\* max_values of the five metrics, in the order of the metrics
max_values == <<150, 100, 10, 20, 20>>

\* create_parcel_performance_radar: None for a parcel without records, else
\* the five metrics of the parcel with the values plotted for them
create_parcel_performance_radar(t, parcel_name) ==
    LET parcel_data == ParcelData(t, parcel_name)
        yield_ha == Column(parcel_data, "yield_ha")
        metrics ==
            << Mean(Column(parcel_data, "yield_percentage")),
               Sub(Num(100),
                   Mul(Div(Std(yield_ha), Mean(yield_ha)), Num(100))),
               Num(Cardinality({ parcel_data[i].crop :
                                   i \in 1..Len(parcel_data) } \ {NoCrop})),
               Mean(Column(parcel_data, "area")),
               Trend(parcel_data) >>
    IN  IF parcel_data = <<>> THEN [fig |-> "None", values |-> <<>>]
        ELSE [fig |-> "figure",
              values |-> [i \in 1..5 |->
                             [metric |-> metrics[i],
                              r |-> normalized(metrics[i], max_values[i])]]]

ColsPerRow == 3

\* the crops of the tables in the sorted order of groupby('crop')
CropOrder ==
    <<"CORN">> \o [i \in 1..MaxCrops |-> CropName(i)] \o <<"WHEAT">>

\* valid_crops[i * cols_per_row:(i + 1) * cols_per_row] for each row i
InRows(crops) ==
    [i \in 1..((Len(crops) + ColsPerRow - 1) \div ColsPerRow) |->
        SubSeq(crops, (i - 1) * ColsPerRow + 1,
               Min(i * ColsPerRow, Len(crops)))]

\* create_crop_timeline_charts: None without a crop of more than two
\* records on the parcel; else one chart per such crop, in group order, in
\* rows of three; np.polyfit raises on a missing year, after the charts of
\* the crops before; else True
create_crop_timeline_charts(t, parcel_name) ==
    LET parcel_data == ParcelData(t, parcel_name)
        crop_data(c) == SelectSeq(parcel_data, LAMBDA r : r.crop = c)
        valid_crops ==
            SelectSeq(CropOrder,
                      LAMBDA c : Len(crop_data(c)) > MinTimelineRecords)
        fails == { i \in 1..Len(valid_crops) :
                     \E j \in 1..Len(crop_data(valid_crops[i])) :
                         isna(crop_data(valid_crops[i])[j].year) }
        first == CHOOSE i \in fails : \A j \in fails : i <= j
    IN  IF valid_crops = <<>> THEN [result |-> "None", rows |-> <<>>]
        ELSE IF fails # {}
        THEN [result |-> "raise",
              rows |-> InRows(SubSeq(valid_crops, 1, first - 1))]
        ELSE [result |-> "True", rows |-> InRows(valid_crops)]

\* create_enhanced_parcel_map and create_parcel_map: None when the parcel
\* has no record or its first geometry is missing; an exception inside
\* (wkt.loads on a malformed string, the undefined max_range of the basic
\* map) is an st.error and None
create_parcel_map(t, selected_parcel, map_type) ==
    LET parcel_data == ParcelData(t, selected_parcel)
    IN  IF parcel_data = <<>> \/ parcel_data[1].geometry = NoGeometry
        THEN [fig |-> "None", error |-> FALSE]
        ELSE IF parcel_data[1].geometry = BadWkt \/ map_type = "basic"
        THEN [fig |-> "None", error |-> TRUE]
        ELSE [fig |-> "figure", error |-> FALSE]

\* show_parcel_statistics with the user's choice of parcel and map type
show_parcel_statisticsMutant(t, selected_parcel, map_type) ==
    [input |-> [i \in 1..Len(t) |->
                   [t[i] EXCEPT !.name = StrName(astype_str(@))]],
     view |-> [NoView EXCEPT !.name = "parcel", !.returned = TRUE]]
show_parcel_statistics(t, selected_parcel, map_type) ==
    LET parcel_data == ParcelData(t, selected_parcel)
        timeline == create_crop_timeline_charts(t, selected_parcel)
        map == create_parcel_map(t, selected_parcel, map_type)
        built == [c \in {"comparison", "radar"} |->
                     create_parcel_chart(t, selected_parcel)]
        started == [NoView EXCEPT !.name = "parcel"]
        selected == [started EXCEPT
                       !.selected = selected_parcel,
                       !.map_type = map_type,
                       !.timeline = timeline.rows,
                       !.records = Column(parcel_data, "index")]
    IN  IF AvailableParcels(t) = {}
        THEN [input |-> t,
              view |-> [started EXCEPT !.returned = TRUE,
                                       !.errors = {"parcels"}]]
        ELSE IF parcel_data = <<>>
        THEN [input |-> t,
              view |-> [selected EXCEPT !.returned = TRUE,
                                        !.errors = {"parcel_data"}]]
        ELSE IF timeline.result = "raise"
        THEN [input |-> t,
              view |-> [selected EXCEPT
                          !.raised = TRUE,
                          !.charts = { c \in {"comparison"} :
                                         built[c] = "figure" },
                          !.skipped = { c \in {"comparison"} :
                                          built[c] = "None" }]]
        ELSE [input |-> t,
              view |->
                [selected EXCEPT
                   !.returned = TRUE,
                   !.charts =
                       { c \in {"comparison", "radar"} :
                           built[c] = "figure" }
                       \cup (IF timeline.result = "True" THEN {"timeline"} ELSE {})
                       \cup {"summary"}
                       \cup (IF map.fig = "figure" THEN {"map"} ELSE {}),
                   !.skipped =
                       { c \in {"comparison", "radar"} :
                           built[c] = "None" }
                       \cup (IF timeline.result = "None" THEN {"timeline"} ELSE {})
                       \cup (IF map.fig = "None" THEN {"map"} ELSE {}),
                   !.warnings =
                       (IF timeline.result = "None" THEN {"timeline"} ELSE {})
                       \cup (IF map.fig = "None" THEN {"map"} ELSE {}),
                   !.errors = IF map.error THEN {"map"} ELSE {},
                   !.radar =
                       create_parcel_performance_radar(t, selected_parcel)
                           .values,
                   !.mapped = IF map.fig = "figure"
                              THEN {selected_parcel} ELSE {}]]

\* the well-formed WKT string of the polygon of parcel n
GeometryOf(n) == "POLYGON " \o n

\* the source rows of the tables handed to the map builders: parcels A and
\* B with their own polygons and yields that give low, middling and high
\* percentages, parcel A without geometry, parcel B with a malformed one
GeometryRawRows ==
    { FullRow(StrName("A"), Num(1), NumCell(1), "WHEAT", NumCell(y),
              NumCell(10), GeometryOf("A")) : y \in {1, 9} }
    \cup { FullRow(StrName("B"), Num(2), NumCell(1), "WHEAT", NumCell(y),
                   NumCell(10), GeometryOf("B")) : y \in {3, 11} }
    \cup { FullRow(StrName("A"), Num(1), NumCell(1), "WHEAT", NumCell(2),
                   NumCell(10), NoGeometry),
           FullRow(StrName("B"), Num(2), NumCell(1), "WHEAT", NumCell(2),
                   NumCell(10), BadWkt) }

GeometryTables ==
    { NormalizedTable(t) :
        t \in UNION { [1..n -> GeometryRawRows] : n \in 0..MaxViewRows } }

\* create_all_parcels_map (called on tables whose records are all named):
\* the aggregated table has one row per name of the records with geometry,
\* sorted by name; all_geometries has one entry per such record that
\* wkt.loads accepts, in row order; the column assignment gives row i of the
\* aggregated table entry i of all_geometries and raises when there are
\* fewer entries than rows
create_all_parcels_map(t) ==
    LET parcels_with_geometry ==
            SelectSeq(t, LAMBDA r : r.geometry # NoGeometry)
        names == { parcels_with_geometry[i].name.s :
                     i \in 1..Len(parcels_with_geometry) }
        parcel_stats == SelectSeq(NameOrder, LAMBDA n : n \in names)
        all_geometries ==
            Column(SelectSeq(parcels_with_geometry,
                             LAMBDA r : r.geometry # BadWkt), "geometry")
    IN  IF parcels_with_geometry = <<>> \/ all_geometries = <<>>
        THEN [fig |-> "None", error |-> FALSE, geometries |-> {}]
        ELSE IF Len(all_geometries) < Len(parcel_stats)
        THEN [fig |-> "None", error |-> TRUE, geometries |-> {}]
        ELSE [fig |-> "figure", error |-> FALSE,
              geometries |-> { <<parcel_stats[i], all_geometries[i]>> :
                                 i \in 1..Len(parcel_stats) }]

(***************************************************************************)
(* The views called on a normalized table                                  *)
(***************************************************************************)
\* a view is handed a normalized table; main() is not running
InitViews ==
    /\ file = [readable |-> FALSE, rows |-> <<>>]
    /\ InitMain
    /\ vdf \in ViewTables \cup CategoryTables \cup TimelineTables
    /\ view = NoView

ShowEnterprise ==
    /\ \E order \in SortedParcels(vdf) :
          LET r == show_enterprise_statistics(vdf, order)
          IN  /\ vdf' = r.input
              /\ view' = r.view
    /\ UNCHANGED mainVars

ShowCrop ==
    /\ \E selected_crop \in CropSelections :
          LET r == show_crop_statistics(vdf, selected_crop)
          IN  /\ vdf' = r.input
              /\ view' = r.view
    /\ UNCHANGED mainVars

\* the selectbox offers the available parcels; without any, the view
\* returns before the selectbox
ShowParcel ==
    /\ \E selected_parcel \in
             (IF AvailableParcels(vdf) = {} THEN {""}
              ELSE AvailableParcels(vdf)),
          map_type \in MapTypes :
          LET r == show_parcel_statistics(vdf, selected_parcel, map_type)
          IN  /\ vdf' = r.input
              /\ view' = r.view
    /\ UNCHANGED mainVars

NextViews ==
    \/ ShowEnterprise
    \/ ShowCrop
    \/ ShowParcel

SpecViews == InitViews /\ [][NextViews]_vars

\* a map builder is handed a normalized table
InitMaps ==
    /\ file = [readable |-> FALSE, rows |-> <<>>]
    /\ InitMain
    /\ vdf \in GeometryTables
    /\ view = NoView

\* create_all_parcels_map(df)
ShowAllParcelsMap ==
    /\ LET map == create_all_parcels_map(vdf)
       IN  view' = [NoView EXCEPT
                      !.name = "all_parcels",
                      !.returned = TRUE,
                      !.charts = IF map.fig = "figure" THEN {"map"} ELSE {},
                      !.skipped = IF map.fig = "None" THEN {"map"} ELSE {},
                      !.errors = IF map.error THEN {"map"} ELSE {},
                      !.geometries = map.geometries]
    /\ UNCHANGED <<vdf, mainVars>>

\* the main page's create_parcel_performance_map(df), rendered by st_folium
ShowPerformanceMap ==
    /\ LET map == PerformanceMap(vdf)
       IN  view' = [NoView EXCEPT
                      !.name = "performance",
                      !.returned = TRUE,
                      !.charts = IF map.fig = "figure" THEN {"map"} ELSE {},
                      !.skipped = IF map.fig = "None" THEN {"map"} ELSE {},
                      !.warnings = IF map.fig = "None" THEN {"map"} ELSE {},
                      !.errors = IF map.error THEN {"map"} ELSE {},
                      !.mapped = map.parcels,
                      !.layers = map.layers]
    /\ UNCHANGED <<vdf, mainVars>>

NextMaps ==
    \/ ShowAllParcelsMap
    \/ ShowPerformanceMap

SpecMaps == InitMaps /\ [][NextMaps]_vars

(***************************************************************************)
(* Vocabulary of the properties                                            *)
(***************************************************************************)
\* load_data has returned in the current pass
Loaded == pc \in {"check", "normalize", "render", "done"}

\* calculate_yield_percentage has returned in the current pass
Normalized == pc \in {"render", "done"} /\ df.ok

\* a record with a defined year and crop
Defined(r) == ~isna(r.year) /\ r.crop # NoCrop

\* the positions of the records of t in the cohort (y, c)
Cohort(t, y, c) == { i \in 1..Len(t) : t[i].year = y /\ t[i].crop = c }

\* the (year, crop) pairs of the records of t
Cohorts(t) == { <<t[i].year, t[i].crop>> :
                  i \in { j \in 1..Len(t) : Defined(t[j]) } }

RECURSIVE SumOver(_, _, _)
SumOver(t, col, S) ==
    IF S = {} THEN Num(0)
    ELSE LET i == CHOOSE i \in S : TRUE
         IN  Add(t[i][col], SumOver(t, col, S \ {i}))

\* arithmetic mean of yield_ha over the cohort of record i of t
CohortMean(t, i) ==
    LET S == Cohort(t, t[i].year, t[i].crop)
    IN  Div(SumOver(t, "yield_ha", S), Num(Cardinality(S)))

RowOrders(n) ==
    { p \in [1..n -> 1..n] : \A i, j \in 1..n : p[i] = p[j] => i = j }

OriginalColumns ==
    {"name", "agev_parcel_id", "year", "crop", "yield_ha", "area", "geometry"}

\* the source row numbers (0-based) whose yield_ha parses to a number > 0
PositiveRows ==
    { i - 1 : i \in { j \in 1..Len(file.rows) :
                        /\ file.rows[j].yield_ha.kind = "num"
                        /\ file.rows[j].yield_ha.val > 0 } }

LoadedIndex == { loaded.rows[i].index : i \in 1..Len(loaded.rows) }

(***************************************************************************)
(* Properties                                                              *)
(***************************************************************************)

\* C1: every record with a defined year and crop gets yield_percentage =
\* (yield_ha / cohort_mean) * 100, cohort_mean being the arithmetic mean of
\* yield_ha over exactly the records with the same (year, crop), itself
\* included.
C1_PercentageOfCohortMean ==
    Normalized =>
        /\ Len(df.rows) = Len(loaded.rows)
        /\ \A i \in 1..Len(loaded.rows) :
              Defined(loaded.rows[i]) =>
                 df.rows[i].yield_percentage =
                    Mul(Div(loaded.rows[i].yield_ha,
                            CohortMean(loaded.rows, i)), Num(100))

\* a cohort of two records with different yields, next to a record of the
\* same crop in another year
C1_Witness ==
    /\ Normalized
    /\ \E i, j, k \in 1..Len(df.rows) :
          /\ Defined(df.rows[i]) /\ Defined(df.rows[k])
          /\ df.rows[i].year = df.rows[j].year
          /\ df.rows[i].crop = df.rows[j].crop
          /\ df.rows[i].yield_ha # df.rows[j].yield_ha
          /\ df.rows[k].crop = df.rows[i].crop
          /\ df.rows[k].year # df.rows[i].year
          /\ df.rows[i].yield_percentage # Num(100)

\* C2: every record retained by load_data receives a defined numeric
\* yield_percentage, whatever its year, area or geometry is after coercion.
C2_EveryRowHasPercentage ==
    Normalized =>
        \A i \in 1..Len(df.rows) : df.rows[i].yield_percentage.k = "num"

\* C3: load_data retains a source row if and only if its yield_ha parses to
\* a number strictly greater than 0; a failure to coerce year or area never
\* removes a row.
C3_RetainedIffPositiveYield ==
    (Loaded /\ file.readable) =>
        /\ loaded.ok
        /\ LoadedIndex = PositiveRows
        /\ Len(loaded.rows) = Cardinality(PositiveRows)

\* a load that kept a row with an unparsable year and one with an unparsable
\* area and dropped a row with a non-positive or non-numeric yield
C3_Witness ==
    /\ pc = "check" /\ loaded.ok
    /\ \E i \in 1..Len(loaded.rows) : isna(loaded.rows[i].year)
    /\ \E i \in 1..Len(loaded.rows) : isna(loaded.rows[i].area)
    /\ Len(loaded.rows) < Len(file.rows)

\* C4 as stated: after load_data every retained record has yield_ha > 0 and
\* a numeric (non-missing) year.
C4_RetainedYearNumeric ==
    (Loaded /\ loaded.ok) =>
        \A i \in 1..Len(loaded.rows) :
            /\ Gt(loaded.rows[i].yield_ha, Num(0))
            /\ ~isna(loaded.rows[i].year)

\* C4 amended: after load_data every retained record has yield_ha > 0 and
\* its year is the number the source year parses to, or missing when it does
\* not parse; a row with yield_ha > 0 whose year fails coercion stays in the
\* loaded set.
C4_RetainedYieldPositive ==
    (Loaded /\ loaded.ok) =>
        /\ \A i \in 1..Len(loaded.rows) :
              LET src == file.rows[loaded.rows[i].index + 1]
              IN  /\ Gt(loaded.rows[i].yield_ha, Num(0))
                  /\ src.year.kind = "num"
                        => loaded.rows[i].year = Num(src.year.val)
                  /\ src.year.kind # "num" => isna(loaded.rows[i].year)
        /\ \A j \in 1..Len(file.rows) :
              (j - 1 \in PositiveRows /\ file.rows[j].year.kind # "num")
                 => j - 1 \in LoadedIndex

\* a loaded table that holds a record with a missing year
C4_Witness ==
    /\ Loaded /\ loaded.ok
    /\ \E i \in 1..Len(loaded.rows) :
          /\ isna(loaded.rows[i].year)
          /\ Gt(loaded.rows[i].yield_ha, Num(0))

\* C5: if the source file cannot be read, load_data yields None, main shows
\* the error and returns: no normalization and no rendering follows a
\* failed load within the pass.
C5_FailedLoadHalts ==
    /\ (Loaded /\ ~file.readable) => ~loaded.ok
    /\ (Loaded /\ ~loaded.ok) =>
          /\ pc \in {"check", "done"}
          /\ ~df.ok
          /\ outcome \in {"none", "returned"}
          /\ pc = "done" => (outcome = "returned" /\ "main" \in messages)

\* a pass that ended on the unreadable file
C5_Witness ==
    /\ ~file.readable
    /\ pc = "done"
    /\ outcome = "returned"
    /\ messages = {"load_data", "main"}

\* C6: for every (year, crop) cohort of the normalized table the sum of the
\* yield_percentage values is 100 times the cohort size (the mean is 100).
C6_CohortMeanIs100 ==
    Normalized =>
        \A key \in Cohorts(df.rows) :
            LET S == Cohort(df.rows, key[1], key[2])
            IN  SumOver(df.rows, "yield_percentage", S)
                   = Num(100 * Cardinality(S))

\* a cohort of three records that are not all equal
C6_Witness ==
    /\ Normalized
    /\ \E key \in Cohorts(df.rows) :
          LET S == Cohort(df.rows, key[1], key[2])
          IN  /\ Cardinality(S) >= 3
              /\ \E i, j \in S : df.rows[i].yield_ha # df.rows[j].yield_ha

\* C7: a record's yield_percentage depends only on the records of its own
\* (year, crop) cohort: the percentages of a cohort are those computed on
\* the table reduced to that cohort alone, so any two tables that agree on
\* the cohort give its records the same percentages.
C7_CohortIsolation ==
    Normalized =>
        \A key \in Cohorts(loaded.rows) :
            LET InCohort(r) == r.year = key[1] /\ r.crop = key[2]
                alone == SelectSeq(loaded.rows, InCohort)
            IN  Column(SelectSeq(df.rows, InCohort), "yield_percentage")
                  = Column(calculate_yield_percentage(alone).out,
                           "yield_percentage")

\* a record next to one of the same year and another crop and one of the
\* same crop and another year, all with different yields
C7_Witness ==
    /\ Normalized
    /\ \E i, j, k \in 1..Len(df.rows) :
          /\ Defined(df.rows[i]) /\ Defined(df.rows[j]) /\ Defined(df.rows[k])
          /\ df.rows[j].year = df.rows[i].year
          /\ df.rows[j].crop # df.rows[i].crop
          /\ df.rows[k].crop = df.rows[i].crop
          /\ df.rows[k].year # df.rows[i].year
          /\ df.rows[j].yield_ha # df.rows[i].yield_ha
          /\ df.rows[k].yield_ha # df.rows[i].yield_ha

\* C8: the record of a (year, crop) pair that has exactly one record in the
\* input has yield_percentage exactly 100.
C8_SingletonIs100 ==
    Normalized =>
        \A j \in 1..Len(df.rows) :
            ( /\ Defined(df.rows[j])
              /\ Cardinality(Cohort(loaded.rows, df.rows[j].year,
                                    df.rows[j].crop)) = 1 )
               => df.rows[j].yield_percentage = Num(100)

\* a singleton cohort next to a larger cohort of the same crop
C8_Witness ==
    /\ Normalized
    /\ \E j, k \in 1..Len(df.rows) :
          /\ Defined(df.rows[j]) /\ Defined(df.rows[k])
          /\ Cardinality(Cohort(df.rows, df.rows[j].year,
                                df.rows[j].crop)) = 1
          /\ Cardinality(Cohort(df.rows, df.rows[k].year,
                                df.rows[k].crop)) = 2
          /\ df.rows[k].crop = df.rows[j].crop
          /\ df.rows[k].yield_ha # df.rows[j].yield_ha

\* C9: the percentages do not depend on the row order or on earlier runs:
\* every permutation of the input rows gives each record the same
\* yield_percentage, and a later pass over the same rows gives the values of
\* the pass before it.
C9_OrderAndRunIndependent ==
    Normalized =>
        /\ \A p \in RowOrders(Len(loaded.rows)) :
              LET permuted == [i \in 1..Len(loaded.rows) |-> loaded.rows[p[i]]]
                  out == calculate_yield_percentage(permuted).out
              IN  /\ Len(out) = Len(df.rows)
                  /\ \A i \in 1..Len(out) :
                        out[i].yield_percentage
                           = df.rows[p[i]].yield_percentage
        /\ prev.ok =>
              Column(prev.rows, "yield_percentage")
                 = Column(df.rows, "yield_percentage")

\* a second pass over a table whose first and last record share a cohort
\* and differ in yield
C9_Witness ==
    /\ Normalized
    /\ prev.ok
    /\ Len(df.rows) = 3
    /\ Defined(df.rows[1])
    /\ df.rows[1].year = df.rows[3].year
    /\ df.rows[1].crop = df.rows[3].crop
    /\ df.rows[1].yield_ha # df.rows[3].yield_ha

\* C10: calculate_yield_percentage returns one row per input row, in the
\* same order, with every original column unchanged, and leaves its input
\* table as it was before the call.
C10_RowsAndInputPreserved ==
    [][ pc = "normalize" =>
          /\ loaded' = loaded
          /\ Len(df'.rows) = Len(loaded.rows)
          /\ \A i \in 1..Len(loaded.rows) :
                \A col \in OriginalColumns :
                    df'.rows[i][col] = loaded.rows[i][col] ]_vars

\* a normalized table of three rows, one of them outside every cohort
C10_Witness ==
    /\ Normalized
    /\ Len(df.rows) = 3
    /\ \E i \in 1..3 : ~Defined(df.rows[i])
    /\ \E i \in 1..3 : Defined(df.rows[i])

\* the columns of a row (index is the row label, not a column)
Columns(r) == DOMAIN r \ {"index"}

\* C11: the normalized table has exactly the columns of the loaded table
\* plus the one appended column yield_percentage, and no other.
C11_OnlyPercentageAppended ==
    Normalized =>
        \A i \in 1..Len(df.rows) :
            Columns(df.rows[i])
               = Columns(loaded.rows[i]) \cup {"yield_percentage"}

\* C12: over the render passes of one session, the normalizer is executed
\* once per loaded dataset, not once per pass.
C12_NormalizedOncePerDataset == normRuns <= bodyRuns

\* C13: the body of load_data runs only when the cache holds no entry, so at
\* most once between two invalidations, and a pass that finds an entry gets
\* the cached result without running the body.
C13_LoadedOncePerCacheEntry ==
    /\ [][ bodyRuns' # bodyRuns => ~cache.present ]_vars
    /\ [][ pc = "load" /\ cache.present =>
              loaded' = cache.value /\ bodyRuns' = bodyRuns ]_vars
    /\ [](bodyRuns <= clears + 1)

\* the second pass of a session has been served from the cache
C13_Witness ==
    /\ passes = 2
    /\ pc = "check"
    /\ clears = 0
    /\ bodyRuns = 1
    /\ loaded.ok
    /\ loaded = cache.value

\* the pass has rendered the page down to the export section
Rendered == pc = "done" /\ outcome = "rendered"

\* C16: on the main page, every chart or map whose builder returned None is
\* skipped with a user-visible warning.
C16_SkippedChartWarned ==
    Rendered => page.skipped \subseteq page.warnings

\* C17: when the statistical tests are requested and the variance test
\* cannot be carried out, fewer than two crops with five records included,
\* a message is shown and the pass goes on to the export section.
C17_TestFailureSurfaced ==
    Rendered /\ page.tests # "off" =>
        /\ page.tests \in {"performed", "warning"}
        /\ page.export

\* C14: no view mutates the normalized table it is handed.
C14_ViewsLeaveTableUnchanged == [][ vdf' = vdf ]_vars

\* the parcel view has rendered the parcel "1" of a table that names it
\* once as a number and once as a string
C14_Witness ==
    /\ view.name = "parcel"
    /\ view.returned
    /\ view.selected = "1"
    /\ \E i, j \in 1..Len(vdf) : /\ vdf[i].name = NumName("1")
                                 /\ vdf[j].name = StrName("1")
    /\ "comparison" \in view.charts

\* C15: no exception propagates past a view's render, for every normalized
\* table and every selection.
C15_NoViewRaises == ~view.raised

\* the rows of t with a well-formed geometry
WithGeometry(t) == { i \in 1..Len(t) : t[i].geometry = Wkt }

\* C18: for a table with some records without geometry and at least one
\* parcel with well-formed geometry, the enterprise view shows the
\* performance map, and the map holds exactly the parcels with geometry.
C18_MapHoldsParcelsWithGeometry ==
    /\ view.name = "enterprise"
    /\ view.returned
    /\ \E i \in 1..Len(vdf) : vdf[i].geometry = NoGeometry
    /\ \E i \in WithGeometry(vdf) : vdf[i].name # NoName
    /\ \A i \in 1..Len(vdf) : vdf[i].geometry # BadWkt
    => /\ "map" \in view.charts
       /\ view.mapped = { vdf[i].name : i \in WithGeometry(vdf) } \ {NoName}

\* the row labels of the records of t whose name reads s as a string
RecordsNamed(t, s) ==
    Column(SelectSeq(t, LAMBDA r : r.name # NoName /\ astype_str(r.name) = s),
           "index")

\* C19: names are compared as strings: the parcel view gets exactly the
\* records whose str(name) is the selection, at least one, and each parcel
\* of the enterprise ranking gets the records whose str(name) is its own.
C19_NamesComparedAsStrings ==
    /\ view.name = "parcel" /\ view.selected # "" =>
          /\ view.records = RecordsNamed(vdf, view.selected)
          /\ view.records # <<>>
    /\ view.name = "enterprise" =>
          \A i \in 1..Len(view.ranking) :
              view.ranking[i].records
                 = RecordsNamed(vdf, astype_str(view.ranking[i].name))

\* n / 5 rounded up
CeilFifth(n) == (n + 4) \div 5

\* C20: the five categories split the ranking into fifths, best first: each
\* holds a fifth of the parcels, rounded down or up, and no parcel of a
\* later category has a higher mean than a parcel of an earlier one.
C20_CategoriesAreFifths ==
    view.name = "enterprise" /\ view.returned =>
        LET total == Cardinality(GroupNames(vdf))
        IN  /\ \A k \in 1..5 :
                  /\ Len(view.categories[k]) >= total \div 5
                  /\ Len(view.categories[k]) <= CeilFifth(total)
            /\ \A k, l \in 1..5 :
                  k < l =>
                     \A i \in 1..Len(view.categories[k]),
                        j \in 1..Len(view.categories[l]) :
                         ~Gt(ParcelMean(vdf, view.categories[l][j]),
                             ParcelMean(vdf, view.categories[k][i]))

\* x >= y on floats: false when either side is missing
Ge(x, y) == ~isna(x) /\ ~isna(y) /\ ~Gt(y, x)

\* the parcels of category k
CategoryParcels(k) ==
    { view.categories[k][i] : i \in 1..Len(view.categories[k]) }

\* the enterprise view has categorized the parcels of vdf
Categorized == view.name = "enterprise" /\ view.returned

\* the categories take every named parcel exactly once
CategoriesPartition ==
    /\ UNION { CategoryParcels(k) : k \in 1..5 } = GroupNames(vdf)
    /\ Len(view.categories[1]) + Len(view.categories[2])
         + Len(view.categories[3]) + Len(view.categories[4])
         + Len(view.categories[5]) = Cardinality(GroupNames(vdf))

\* C21: the categories partition the named parcels, and every
\* parcel of a category has a mean greater than or equal to the mean of
\* every parcel of each later category.
C21_PartitionOrderedByMean ==
    Categorized =>
        /\ CategoriesPartition
        /\ \A k, l \in 1..5 :
              k < l =>
                 \A p \in CategoryParcels(k), q \in CategoryParcels(l) :
                     Ge(ParcelMean(vdf, p), ParcelMean(vdf, q))

\* C22: with the basic map type, for a parcel whose first record carries a
\* well-formed geometry, the parcel view shows a map of that parcel and no
\* error.
C22_BasicMapShown ==
    /\ view.name = "parcel"
    /\ view.returned
    /\ view.map_type = "basic"
    /\ view.records # <<>>
    /\ ParcelData(vdf, view.selected)[1].geometry = Wkt
    => /\ "map" \in view.charts
       /\ view.mapped = {view.selected}
       /\ "map" \notin view.errors

\* C23: in the all-parcels map every parcel is paired with the geometry of
\* one of its own records.
C23_ParcelHasOwnGeometry ==
    view.name = "all_parcels" =>
        \A pair \in view.geometries :
            \E i \in 1..Len(vdf) :
                /\ vdf[i].name.s = pair[1]
                /\ vdf[i].geometry = pair[2]

\* C24: in the main page's performance map every parcel is filled, when the
\* map is rendered, with the colour of its own average yield_percentage.
C24_LayerHasOwnColour ==
    view.name = "performance" =>
        \A i \in 1..Len(view.layers) :
            view.layers[i].fillColor
               = Colour(view.layers[i].avg_yield_percentage)

\* C25: get_color returns a well-formed colour, each of r, g, b in 0..255,
\* for the average of every parcel of the enterprise map.
C25_ColoursWellFormed ==
    view.name = "enterprise" =>
        \A i \in 1..Len(view.colours) :
            /\ view.colours[i].colour.ok
            /\ view.colours[i].colour.r \in 0..255
            /\ view.colours[i].colour.g \in 0..255
            /\ view.colours[i].colour.b \in 0..255

\* the crops with more than two records among the selected parcel's
ChartedCrops ==
    { c \in { vdf[i].crop : i \in 1..Len(vdf) } \ {NoCrop} :
        Len(SelectSeq(ParcelData(vdf, view.selected),
                      LAMBDA r : r.crop = c)) > 2 }

\* C26: the timeline charts exactly the crops with more than two records on
\* the selected parcel, each once, in group order, in rows of at most three
\* charts; without such a crop the builder returns None.
C26_TimelineChartsValidCrops ==
    view.name = "parcel" /\ view.records # <<>> =>
        LET charts == Flatten(view.timeline)
        IN  /\ ChartedCrops = {} <=> "timeline" \in view.skipped
            /\ { charts[i] : i \in 1..Len(charts) } = ChartedCrops
            /\ charts = SelectSeq(CropOrder, LAMBDA c : c \in ChartedCrops)
            /\ \A i \in 1..Len(view.timeline) :
                  /\ Len(view.timeline[i]) >= 1
                  /\ Len(view.timeline[i]) <= 3
                  /\ i < Len(view.timeline) => Len(view.timeline[i]) = 3

\* the value v is a number from 0 to 100
InRange(v) == v.k = "num" /\ ~Gt(Num(0), v) /\ ~Gt(v, Num(100))

\* C27: every value the radar chart plots lies in 0..100.
C27_RadarValuesInRange ==
    view.name = "parcel" /\ "radar" \in view.charts =>
        /\ Len(view.radar) = 5
        /\ \A i \in 1..5 : InRange(view.radar[i].r)

\* a radar of a parcel with a single record: stability and trend are
\* undefined and plotted as 0, the mean percentage is above its reference
\* maximum and plotted as 100
C27_Witness ==
    /\ view.name = "parcel"
    /\ "radar" \in view.charts
    /\ Len(view.records) = 1
    /\ isna(view.radar[2].metric) /\ view.radar[2].r = Num(0)
    /\ isna(view.radar[5].metric) /\ view.radar[5].r = Num(0)
    /\ Gt(view.radar[1].metric, Num(150)) /\ view.radar[1].r = Num(100)

\* C28: when the source file was read and no row survives the filter on
\* yield_ha, the render pass completes without raising.
C28_EmptyTableRenders ==
    pc = "done" /\ loaded.ok /\ loaded.rows = <<>> => outcome = "rendered"

================================================================================
